---- MODULE Spec2Model ----
(***************************************************************************)
(* A model of stapp.py: the Streamlit front end's "Process PDFs" handler   *)
(* (main), the batch orchestrator (run_pipeline) with its thread pool, the *)
(* per-document unit of work (process_single_pdf), the result sink         *)
(* (save_to_mongo) and the text functions (remove_stopwords,              *)
(* custom_summarization, extract_keywords).                                *)
(*                                                                         *)
(* Text is modelled as the sequence of its whitespace-separated words      *)
(* (what str.split() returns); a word is a record                          *)
(*   [w |-> its letters or digits, lower-cased,                            *)
(*    cap |-> whether it is written with a capital,                        *)
(*    p |-> the punctuation mark attached to its end: "", "," or "."]      *)
(* so "Cats," is [w |-> "cats", cap |-> TRUE, p |-> ","].  A string that   *)
(* is " ".join(words) is the same sequence.                                *)
(***************************************************************************)
EXTENDS Naturals, Integers, Sequences, FiniteSets, Bags, TLC

(***************************************************************************)
(* Bounds of the model.                                                    *)
(***************************************************************************)
\* the largest number of '.pdf' files in the folder
MaxDocs == 3
\* max_workers of ThreadPoolExecutor() (min(32, cpu_count + 4) in CPython);
\* kept below MaxDocs so that documents have to wait for a worker
PoolSize == 2

\* the largest number of words of a text a function is called with on its own
MaxWords == 3
\* the largest count (num_sentences, top_n) such a call is made with
MaxCount == 2

DocNames == <<"A", "B", "C", "D", "E", "F">>
Stems == {DocNames[i] : i \in 1..MaxDocs}

(***************************************************************************)
(* Words and text.                                                        *)
(***************************************************************************)
Tok(w, cap, p) == [w |-> w, cap |-> cap, p |-> p]

\* nltk's stopwords.words('english'), restricted to the model's vocabulary
stop_words == {"the", "and", "are"}

\* the words of the vocabulary that consist of letters only (str.isalpha)
AlphaWords == {"the", "and", "are", "cats", "dogs", "pets", "great"}

\* the function f of domain 1..n as a sequence, with every element evaluated
AsSeq(f) == SubSeq(f, 1, Len(f))

\* str.lower() of one word: the capital goes, the punctuation stays
Lower(t) == [t EXCEPT !.cap = FALSE]

\* text.lower()
LowerText(txt) == AsSeq([i \in DOMAIN txt |-> Lower(txt[i])])

\* `word.lower() not in stop_words': the whole word, punctuation included,
\* is looked up, so "the," is not found in the set
InStopWords(t) == t.cap = FALSE /\ t.p = "" /\ t.w \in stop_words

remove_stopwords(txt) == SelectSeq(txt, LAMBDA t : ~InStopWords(Lower(t)))

\* the number of elements of the sequences before place i of a sequence of
\* sequences
Offset(seqs, i) ==
    Cardinality(UNION {{<<a, b>> : b \in DOMAIN seqs[a]} : a \in 1..(i - 1)})

\* the concatenation of a sequence of sequences
Flatten(seqs) ==
    AsSeq([k \in 1..Offset(seqs, Len(seqs) + 1) |->
        LET a == CHOOSE a \in DOMAIN seqs :
                    Offset(seqs, a) < k /\ k <= Offset(seqs, a) + Len(seqs[a])
        IN  seqs[a][k - Offset(seqs, a)]])

\* nltk.word_tokenize: a word with a comma or a sentence-final period
\* attached becomes two tokens, the word and the mark
WordTokens(t) ==
    IF t.p = "" THEN <<t>> ELSE <<Tok(t.w, t.cap, ""), Tok(t.p, FALSE, "")>>

word_tokenize(txt) == Flatten(AsSeq([i \in DOMAIN txt |-> WordTokens(txt[i])]))

\* str.isalpha() of a token
isalpha(t) == t.w \in AlphaWords

\* nltk.sent_tokenize: a sentence ends with each word that carries a period,
\* and with the last word of the text
SentenceEnds(txt) == {i \in DOMAIN txt : txt[i].p = "." \/ i = Len(txt)}
SentenceEnd(txt, k) ==
    CHOOSE e \in SentenceEnds(txt) :
        Cardinality({x \in SentenceEnds(txt) : x < e}) = k - 1
SentenceStart(txt, k) == IF k = 1 THEN 1 ELSE SentenceEnd(txt, k - 1) + 1
sent_tokenize(txt) ==
    AsSeq([k \in 1..Cardinality(SentenceEnds(txt)) |->
        SubSeq(txt, SentenceStart(txt, k), SentenceEnd(txt, k))])

\* Counter(words)[x]
Freq(words, x) == Cardinality({i \in DOMAIN words : words[i] = x})

\* the keys of Counter(words) in insertion (first-encountered) order
CounterKeys(words) ==
    LET first == {i \in DOMAIN words : \A j \in 1..(i - 1) : words[j] # words[i]}
    IN  AsSeq([k \in 1..Cardinality(first) |->
            words[CHOOSE i \in first : Cardinality({j \in first : j < i}) = k - 1]])

\* Variant: elements of equal key come out in the reverse of their order.
Rank_ties_reversed(keys, i) ==
    1 + Cardinality({j \in DOMAIN keys :
            keys[j] > keys[i] \/ (keys[j] = keys[i] /\ j > i)})

\* sorted(seq, key, reverse=True): a stable sort, descending by keys[i]
Rank(keys, i) ==
    1 + Cardinality({j \in DOMAIN keys :
            keys[j] > keys[i] \/ (keys[j] = keys[i] /\ j < i)})
SortedDesc(seq, keys) ==
    AsSeq([pos \in DOMAIN seq |-> seq[CHOOSE i \in DOMAIN seq : Rank(keys, i) = pos]])

FirstN(seq, n) == SubSeq(seq, 1, IF n < Len(seq) THEN n ELSE Len(seq))

\* Counter.most_common(n): the n most frequent keys, ties in insertion order
most_common(words, n) ==
    LET keys == CounterKeys(words)
    IN  FirstN(SortedDesc(keys, AsSeq([i \in DOMAIN keys |-> Freq(words, keys[i])])), n)

\* sum(word_freq[word] for word in toks)
SumFreq(words, toks) ==
    Cardinality({ij \in (DOMAIN toks) \X (DOMAIN words) : toks[ij[1]] = words[ij[2]]})

\* the sort key of custom_summarization
SentenceScore(words, sentence) == SumFreq(words, word_tokenize(LowerText(sentence)))

\* " ".join(sentences)
Join(sentences) == Flatten(sentences)

\* Variant: the sentences are taken from the lower-cased text.
ranked_sentences_lowered(txt) ==
    LET sentences == sent_tokenize(LowerText(txt))
        words == word_tokenize(LowerText(txt))
    IN  SortedDesc(sentences,
            AsSeq([i \in DOMAIN sentences |-> SentenceScore(words, sentences[i])]))

ranked_sentences(txt) ==
    LET sentences == sent_tokenize(txt)
        words == word_tokenize(LowerText(txt))
    IN  SortedDesc(sentences,
            AsSeq([i \in DOMAIN sentences |-> SentenceScore(words, sentences[i])]))

custom_summarization(txt, num_sentences) ==
    IF txt = <<>> THEN <<>>
    ELSE Join(FirstN(ranked_sentences(txt), num_sentences))

\* Variant: the tokens that are not alphabetic are dropped before the top_n
\* most frequent are selected.
extract_keywords_drop_first(txt, top_n) ==
    IF txt = <<>> THEN <<>>
    ELSE LET words == word_tokenize(LowerText(remove_stopwords(txt)))
         IN  most_common(SelectSeq(words, isalpha), top_n)

extract_keywords(txt, top_n) ==
    IF txt = <<>> THEN <<>>
    ELSE LET words == word_tokenize(LowerText(remove_stopwords(txt)))
         IN  SelectSeq(most_common(words, top_n), isalpha)

(***************************************************************************)
(* Strings with their whitespace.  Where a function is called on its own,  *)
(* its argument is the string itself: a sequence whose elements are words  *)
(* and whitespace characters.  str.split() and " ".join() go between the   *)
(* string and the sequence of its words.                                   *)
(***************************************************************************)
Space == Tok(" ", FALSE, "")
Newline == Tok("\n", FALSE, "")

\* str.isspace() of one element of a string
IsSpace(c) == c.w \in {" ", "\n"}

\* `not s.strip()': nothing is left when the whitespace at both ends is cut
IsBlank(s) == \A i \in DOMAIN s : IsSpace(s[i])

\* the letters and marks of a run of elements with no whitespace between them
RECURSIVE Spelling(_)
Spelling(run) ==
    IF run = << >> THEN "" ELSE run[1].w \o run[1].p \o Spelling(Tail(run))

\* elements that follow each other without whitespace are one word
Glue(run) ==
    IF Len(run) = 1 THEN run[1]
    ELSE Tok(Spelling(run), \E i \in DOMAIN run : run[i].cap, "")

\* where the words of a string begin, and where the word that begins at i ends
WordStarts(s) ==
    {i \in DOMAIN s : ~IsSpace(s[i]) /\ (i = 1 \/ IsSpace(s[i - 1]))}
WordEnd(s, i) ==
    CHOOSE j \in i..Len(s) :
        /\ \A m \in i..j : ~IsSpace(s[m])
        /\ j = Len(s) \/ IsSpace(s[j + 1])
NthWordStart(s, k) ==
    CHOOSE i \in WordStarts(s) : Cardinality({j \in WordStarts(s) : j < i}) = k - 1

\* s.split(): the maximal runs without whitespace, in order
split(s) ==
    AsSeq([k \in 1..Cardinality(WordStarts(s)) |->
        Glue(SubSeq(s, NthWordStart(s, k), WordEnd(s, NthWordStart(s, k))))])

\* Variant: the words are joined with nothing between them.
join_unspaced(words) == words

\* " ".join(words)
join(words) ==
    AsSeq([k \in 1..(2 * Len(words) - 1) |->
        IF k % 2 = 1 THEN words[(k + 1) \div 2] ELSE Space])

\* the defaults of the two functions, used by process_single_pdf
DefaultNumSentences == 3
DefaultTopN == 5

(***************************************************************************)
(* The folder, its files and their text.                                  *)
(***************************************************************************)
File(stem, ext) == [stem |-> stem, ext |-> ext]

\* a file of the folder that is no document
OtherFile == File("notes", ".txt")

\* every name a unit of work can carry
Names == Stems \cup {OtherFile.stem}

\* "Cats are great. Dogs, 42 cats."
TextCats ==
    <<Tok("cats", TRUE, ""), Tok("are", FALSE, ""), Tok("great", FALSE, "."),
      Tok("dogs", TRUE, ","), Tok("42", FALSE, ""), Tok("cats", FALSE, ".")>>

\* "The, pets and dogs. Pets are great."
TextPets ==
    <<Tok("the", TRUE, ","), Tok("pets", FALSE, ""), Tok("and", FALSE, ""),
      Tok("dogs", FALSE, "."), Tok("pets", TRUE, ""), Tok("are", FALSE, ""),
      Tok("great", FALSE, ".")>>

\* the texts a unit of work can hold
Texts == {<< >>, TextCats, TextPets}
FilteredTexts == Texts \cup {remove_stopwords(t) : t \in Texts}

\* custom_summarization(processed_text) and extract_keywords(processed_text),
\* with the default arguments, for each text of the model, as explicit tables:
\* the values are computed once, not at each step
summaries ==
    [t \in FilteredTexts |-> custom_summarization(t, DefaultNumSentences)] @@ << >>
keyword_lists ==
    [t \in FilteredTexts |-> extract_keywords(t, DefaultTopN)] @@ << >>

VARIABLES
    folder,          \* what folder_path names: "missing", "notdir" or "dir"
    listing,         \* os.listdir(folder_path)
    docText,         \* the text of each document of the folder
    mainPc,          \* where the script thread is
    finalSignal,     \* the per-run signal of main
    warnings,        \* how often st.warning was called
    executor,        \* the ThreadPoolExecutor: "none", "open" or "shutdown"
    pdf_files,       \* run_pipeline's pdf_files
    submitted,       \* how many of pdf_files have been submitted
    collected,       \* how many futures future.result() has returned for
    queue,           \* the executor's work queue
    pc,              \* the state of each unit of work
    futureExc,       \* whether the unit's future holds an exception
    stagesRun,       \* the stages each unit of work has called, in order
    text,            \* process_single_pdf's local text
    processed_text,  \* process_single_pdf's local processed_text
    summary,         \* process_single_pdf's local summary
    keywords,        \* process_single_pdf's local keywords
    processingLines, \* st.write("Processing ...") calls per document
    savedLines,      \* st.write("Saved summary and keywords ...") calls
    processErrors,   \* st.error("Error processing ...") calls
    saveErrors,      \* st.error("Failed to save to MongoDB ...") calls
    collection,      \* the MongoDB collection: a bag of records
    arg_text,        \* the text a text function is called with on its own
    arg_n,           \* the count it is called with (num_sentences, top_n)
    returned         \* the last such call: its function, argument and value

mainVars == <<mainPc, finalSignal, warnings, executor, pdf_files, submitted, collected>>
localVars == <<text, processed_text, summary, keywords>>
lineVars == <<processingLines, savedLines, processErrors, saveErrors>>
inputVars == <<folder, listing, docText>>
callVars == <<arg_text, arg_n, returned>>
vars == <<inputVars, mainVars, queue, pc, futureExc, stagesRun, localVars,
          lineVars, collection, callVars>>

NoText == << >>

\* no text function has been called on its own
NoCall == [fn |-> "none", arg |-> << >>, value |-> << >>, nth |-> 0]

\* the button has not been pressed: nothing of a run exists
NothingRun ==
    /\ mainPc = "Idle"
    /\ finalSignal = "none"
    /\ warnings = 0
    /\ executor = "none"
    /\ pdf_files = << >>
    /\ submitted = 0
    /\ collected = 0
    /\ queue = << >>
    /\ pc = [d \in Names |-> "NotSubmitted"]
    /\ futureExc = [d \in Names |-> FALSE]
    /\ stagesRun = [d \in Names |-> << >>]
    /\ text = [d \in Names |-> NoText]
    /\ processed_text = [d \in Names |-> NoText]
    /\ summary = [d \in Names |-> NoText]
    /\ keywords = [d \in Names |-> << >>]
    /\ processingLines = [d \in Names |-> 0]
    /\ savedLines = [d \in Names |-> 0]
    /\ processErrors = [d \in Names |-> 0]
    /\ saveErrors = [d \in Names |-> 0]
    /\ collection = EmptyBag

Init ==
    /\ folder \in {"missing", "notdir", "dir"}
    /\ \E n \in 0..MaxDocs, other \in BOOLEAN, pets \in BOOLEAN :
          \* the file that is no document is there in the small folders
          /\ other => n < 2
          \* the first document holds one text or the other, the others the other one
          /\ pets => n >= 1
          /\ listing =
                IF folder = "dir"
                THEN (IF other THEN <<OtherFile>> ELSE << >>)
                     \o [i \in 1..n |-> File(DocNames[i], ".pdf")]
                ELSE << >>
          /\ docText = [d \in Names |->
                IF pets /\ DocNames[1] = d THEN TextPets
                ELSE IF \E i \in 1..n : DocNames[i] = d THEN TextCats
                ELSE NoText]
          /\ folder # "dir" => (n = 0 /\ ~other)
    /\ NothingRun
    /\ arg_text = << >>
    /\ arg_n = 0
    /\ returned = NoCall

(***************************************************************************)
(* main and run_pipeline: the script thread.                               *)
(***************************************************************************)
\* Variant: the path is taken to exist whatever it names.
PathExists_always(f) == TRUE

\* os.path.exists(folder_path)
PathExists(f) == f # "missing"

\* Variant: every file of the folder is taken for a document.
IsPdf_any(f) == TRUE

\* f.endswith('.pdf')
IsPdf(f) == f.ext = ".pdf"

\* os.path.splitext(os.path.basename(pdf_path))[0]
PdfName(f) == f.stem

\* the units of work handed to the pool so far
Submitted == {pdf_files[k].stem : k \in 1..submitted}

\* Variant: a future counts as done as soon as a worker has taken it.
Finished_started(d) == pc[d] \notin {"NotSubmitted", "Pending"}

\* the unit's future is done: process_single_pdf has returned or raised
Finished(d) == pc[d] \in {"Completed", "Failed"}

\* the button is pressed: main checks the path
Click ==
    /\ mainPc = "Idle"
    /\ IF PathExists(folder)
       THEN /\ mainPc' = "ListDir"
            /\ UNCHANGED finalSignal
       ELSE /\ mainPc' = "Done"
            /\ finalSignal' = "error: The folder path does not exist."
    /\ UNCHANGED <<inputVars, callVars, warnings, executor, pdf_files, submitted, collected,
                   queue, pc, futureExc, stagesRun, localVars, lineVars, collection>>

\* run_pipeline up to the pool: os.listdir raises for a path that is no
\* folder; no '.pdf' file gives the warning and the return
ListDir ==
    /\ mainPc = "ListDir"
    /\ LET found == SelectSeq(listing, IsPdf) IN
          IF folder # "dir"
          THEN /\ mainPc' = "Raised"
               /\ UNCHANGED <<warnings, executor, pdf_files>>
          ELSE IF found = << >>
          THEN /\ mainPc' = "Returned"
               /\ warnings' = warnings + 1
               /\ UNCHANGED <<executor, pdf_files>>
          ELSE /\ mainPc' = "Submitting"
               /\ executor' = "open"
               /\ pdf_files' = found
               /\ UNCHANGED warnings
    /\ UNCHANGED <<inputVars, callVars, finalSignal, submitted, collected,
                   queue, pc, futureExc, stagesRun, localVars, lineVars, collection>>

\* executor.submit(process_single_pdf, pdf_path, ...) for the next file
Submit ==
    /\ mainPc = "Submitting"
    /\ submitted < Len(pdf_files)
    /\ LET d == pdf_files[submitted + 1].stem IN
          /\ queue' = Append(queue, d)
          /\ pc' = [pc EXCEPT ![d] = "Pending"]
    /\ submitted' = submitted + 1
    /\ mainPc' = IF submitted' = Len(pdf_files) THEN "Collecting" ELSE "Submitting"
    /\ UNCHANGED <<inputVars, callVars, finalSignal, warnings, executor, pdf_files, collected,
                   futureExc, stagesRun, localVars, lineVars, collection>>

\* future.result() for the next future: blocks until it is done, and raises
\* what the unit raised
FutureResult ==
    /\ mainPc = "Collecting"
    /\ collected < Len(pdf_files)
    /\ LET d == pdf_files[collected + 1].stem IN
          /\ Finished(d)
          /\ IF futureExc[d]
             THEN /\ mainPc' = "Unwinding"
                  /\ UNCHANGED collected
             ELSE /\ collected' = collected + 1
                  /\ mainPc' = IF collected' = Len(pdf_files)
                               THEN "Exiting" ELSE "Collecting"
    /\ UNCHANGED <<inputVars, callVars, finalSignal, warnings, executor, pdf_files, submitted,
                   queue, pc, futureExc, stagesRun, localVars, lineVars, collection>>

\* the end of the with block: shutdown(wait=True) joins the workers, on the
\* normal path and on the exceptional one
ExecutorExit ==
    /\ mainPc \in {"Exiting", "Unwinding"}
    /\ \A d \in Submitted : Finished(d)
    /\ executor' = "shutdown"
    /\ mainPc' = IF mainPc = "Unwinding" THEN "Raised" ELSE "Returned"
    /\ UNCHANGED <<inputVars, callVars, finalSignal, warnings, pdf_files, submitted, collected,
                   queue, pc, futureExc, stagesRun, localVars, lineVars, collection>>

\* Variant: main reports an error when a document has failed.
MainSignal_outcomes ==
    /\ mainPc \in {"Returned", "Raised"}
    /\ finalSignal' = IF mainPc = "Returned"
                         /\ \A k \in DOMAIN pdf_files : pc[pdf_files[k].stem] = "Completed"
                      THEN "success: PDFs processed successfully!"
                      ELSE "error: An error occurred"
    /\ mainPc' = "Done"
    /\ UNCHANGED <<inputVars, callVars, warnings, executor, pdf_files, submitted, collected,
                   queue, pc, futureExc, stagesRun, localVars, lineVars, collection>>

\* main after run_pipeline: st.success, or st.error in its except clause
MainSignal ==
    /\ mainPc \in {"Returned", "Raised"}
    /\ finalSignal' = IF mainPc = "Returned"
                      THEN "success: PDFs processed successfully!"
                      ELSE "error: An error occurred"
    /\ mainPc' = "Done"
    /\ UNCHANGED <<inputVars, callVars, warnings, executor, pdf_files, submitted, collected,
                   queue, pc, futureExc, stagesRun, localVars, lineVars, collection>>

(***************************************************************************)
(* The pool's workers and process_single_pdf, the unit of work.            *)
(***************************************************************************)
\* the units of work a worker thread is running
Running == {d \in Names : pc[d] \notin {"NotSubmitted", "Pending", "Completed", "Failed"}}

\* Variant: a thread per unit of work, however many are running.
FreeWorker_always == TRUE

\* the pool has a thread that is not running a unit of work
FreeWorker == Cardinality(Running) < PoolSize

\* the pdf_path the unit of work was submitted with
PathOf(d) == CHOOSE f \in {pdf_files[k] : k \in DOMAIN pdf_files} : f.stem = d

\* Variant: the summary is made from the text before it is filtered, and
\* the filter runs after it.
AfterStage_swapped(p) ==
    CASE p = "Extracting" -> "Summarizing"
      [] p = "Summarizing" -> "Filtering"
      [] p = "Filtering" -> "KeywordExtracting"
      [] p = "KeywordExtracting" -> "Persisting"
      [] p = "Persisting" -> "Completed"

\* the statements of process_single_pdf's try block, in program order
AfterStage(p) ==
    CASE p = "Extracting" -> "Filtering"
      [] p = "Filtering" -> "Summarizing"
      [] p = "Summarizing" -> "KeywordExtracting"
      [] p = "KeywordExtracting" -> "Persisting"
      [] p = "Persisting" -> "Completed"

Called(d, stage) == stagesRun' = [stagesRun EXCEPT ![d] = Append(@, stage)]

\* the frame of process_single_pdf is gone when it returns
DropLocals(d) ==
    /\ text' = [text EXCEPT ![d] = NoText]
    /\ processed_text' = [processed_text EXCEPT ![d] = NoText]
    /\ summary' = [summary EXCEPT ![d] = NoText]
    /\ keywords' = [keywords EXCEPT ![d] = << >>]

\* Variant: the handler reports the failure and raises it again, so the
\* future holds the exception.
ExceptHandler_reraise(d) ==
    /\ processErrors' = [processErrors EXCEPT ![d] = @ + 1]
    /\ pc' = [pc EXCEPT ![d] = "Failed"]
    /\ futureExc' = [futureExc EXCEPT ![d] = TRUE]
    /\ UNCHANGED queue
    /\ DropLocals(d)

\* Variant: the handler also cancels the units of work still in the queue.
ExceptHandler_cancel(d) ==
    /\ processErrors' = [processErrors EXCEPT ![d] = @ + 1]
    /\ pc' = [e \in Names |->
                IF e = d \/ \E k \in DOMAIN queue : queue[k] = e
                THEN "Failed" ELSE pc[e]]
    /\ queue' = << >>
    /\ UNCHANGED futureExc
    /\ DropLocals(d)

\* Variant: the handler reports the failure and hands the unit of work to
\* the pool again.
ExceptHandler_retry(d) ==
    /\ processErrors' = [processErrors EXCEPT ![d] = @ + 1]
    /\ pc' = [pc EXCEPT ![d] = "Pending"]
    /\ queue' = Append(queue, d)
    /\ UNCHANGED futureExc
    /\ DropLocals(d)

\* `except Exception as e: st.error("Error processing ...")': the unit of
\* work ends, its future holds no exception, the queue is left alone
ExceptHandler(d) ==
    /\ processErrors' = [processErrors EXCEPT ![d] = @ + 1]
    /\ pc' = [pc EXCEPT ![d] = "Failed"]
    /\ UNCHANGED <<futureExc, queue>>
    /\ DropLocals(d)

\* a worker thread takes the next work item off the queue
Start(d) ==
    /\ queue # << >>
    /\ d = Head(queue)
    /\ FreeWorker
    /\ queue' = Tail(queue)
    /\ pc' = [pc EXCEPT ![d] = "Extracting"]
    /\ UNCHANGED <<inputVars, callVars, mainVars, futureExc, stagesRun, localVars, lineVars,
                   collection>>

\* text, num_pages = extract_text_from_pdf(pdf_path); st.write("Processing ...")
Extract(d) ==
    /\ pc[d] = "Extracting"
    /\ Called(d, "extract")
    /\ \/ /\ text' = [text EXCEPT ![d] = docText[d]]
          /\ processingLines' = [processingLines EXCEPT ![d] = @ + 1]
          /\ pc' = [pc EXCEPT ![d] = AfterStage("Extracting")]
          /\ UNCHANGED <<processed_text, summary, keywords, processErrors,
                         futureExc, queue>>
       \/ /\ ExceptHandler(d)
          /\ UNCHANGED processingLines
    /\ UNCHANGED <<inputVars, callVars, mainVars, savedLines, saveErrors, collection>>

\* processed_text = remove_stopwords(text)
Filter(d) ==
    /\ pc[d] = "Filtering"
    /\ Called(d, "filter")
    /\ \/ /\ processed_text' = [processed_text EXCEPT ![d] = remove_stopwords(text[d])]
          /\ pc' = [pc EXCEPT ![d] = AfterStage("Filtering")]
          /\ UNCHANGED <<text, summary, keywords, processErrors, futureExc, queue>>
       \/ ExceptHandler(d)
    /\ UNCHANGED <<inputVars, callVars, mainVars, processingLines, savedLines, saveErrors,
                   collection>>

\* summary = custom_summarization(processed_text)
Summarize(d) ==
    /\ pc[d] = "Summarizing"
    /\ Called(d, "summarize")
    /\ \/ /\ summary' = [summary EXCEPT ![d] = summaries[processed_text[d]]]
          /\ pc' = [pc EXCEPT ![d] = AfterStage("Summarizing")]
          /\ UNCHANGED <<text, processed_text, keywords, processErrors, futureExc, queue>>
       \/ ExceptHandler(d)
    /\ UNCHANGED <<inputVars, callVars, mainVars, processingLines, savedLines, saveErrors,
                   collection>>

\* keywords = extract_keywords(processed_text)
Keywords(d) ==
    /\ pc[d] = "KeywordExtracting"
    /\ Called(d, "keywords")
    /\ \/ /\ keywords' = [keywords EXCEPT ![d] = keyword_lists[processed_text[d]]]
          /\ pc' = [pc EXCEPT ![d] = AfterStage("KeywordExtracting")]
          /\ UNCHANGED <<text, processed_text, summary, processErrors, futureExc, queue>>
       \/ ExceptHandler(d)
    /\ UNCHANGED <<inputVars, callVars, mainVars, processingLines, savedLines, saveErrors,
                   collection>>

\* Variant: summary and keywords are kept in one place shared by the
\* workers, so the record holds those of some unit of work that is running.
MongoDoc_shared(d) ==
    LET e == CHOOSE x \in Running : TRUE
    IN  [pdf_name |-> PdfName(PathOf(d)), summary |-> summary[e],
         keywords |-> keywords[e]]

\* the record save_to_mongo inserts
MongoDoc(d) ==
    [pdf_name |-> PdfName(PathOf(d)), summary |-> summary[d], keywords |-> keywords[d]]

\* Variant: the except clause of save_to_mongo swallows the exception
\* without reporting it.
save_to_mongo_silent(d) ==
    \/ /\ collection' = collection (+) SetToBag({MongoDoc(d)})
       /\ UNCHANGED saveErrors
    \/ UNCHANGED <<saveErrors, collection>>

\* save_to_mongo: insert_one stores the record, or the client or the insert
\* raises and the except clause reports it and returns
save_to_mongo(d) ==
    \/ /\ collection' = collection (+) SetToBag({MongoDoc(d)})
       /\ UNCHANGED saveErrors
    \/ /\ saveErrors' = [saveErrors EXCEPT ![d] = @ + 1]
       /\ UNCHANGED collection

\* save_to_mongo(pdf_path, summary, keywords, ...) returns, whatever happened
\* in it; st.write("Saved summary and keywords ..."); the function returns
Persist(d) ==
    /\ pc[d] = "Persisting"
    /\ Called(d, "persist")
    /\ save_to_mongo(d)
    /\ savedLines' = [savedLines EXCEPT ![d] = @ + 1]
    /\ pc' = [pc EXCEPT ![d] = AfterStage("Persisting")]
    /\ DropLocals(d)
    /\ UNCHANGED <<inputVars, callVars, mainVars, queue, futureExc,
                   processingLines, processErrors>>

WorkerStep ==
    \E d \in Names :
        \/ Start(d)
        \/ Extract(d)
        \/ Filter(d)
        \/ Summarize(d)
        \/ Keywords(d)
        \/ Persist(d)

MainStep ==
    \/ Click
    \/ ListDir
    \/ Submit
    \/ FutureResult
    \/ ExecutorExit
    \/ MainSignal

Next == MainStep \/ WorkerStep

Spec == Init /\ [][Next]_vars

\* every worker thread that can take a step eventually takes one: the
\* threads are scheduled by the operating system and each call returns or
\* raises
FairSpec == Spec /\ WF_vars(WorkerStep)

(***************************************************************************)
(* The text functions called on their own: remove_stopwords,               *)
(* custom_summarization and extract_keywords are pure, so a call is one    *)
(* step from the argument to the value.                                    *)
(***************************************************************************)
\* the words the arguments are made of: "The", "the,", "cats", "Cats.",
\* "dogs." and "42"
Vocabulary ==
    {Tok("the", TRUE, ""), Tok("the", FALSE, ","), Tok("cats", FALSE, ""),
     Tok("cats", TRUE, "."), Tok("dogs", FALSE, "."), Tok("42", FALSE, "")}

WordSeqs == UNION {[1..m -> Vocabulary] : m \in 0..MaxWords}

\* the words with a newline before them and two spaces after each
Loose(words) ==
    <<Newline>> \o Flatten(AsSeq([k \in DOMAIN words |-> <<words[k], Space, Space>>]))

\* the strings the functions are called with: "" and whitespace alone are
\* among them
Strings == {join(ws) : ws \in WordSeqs} \cup {Loose(ws) : ws \in WordSeqs}

TextInit ==
    /\ folder = "missing"
    /\ listing = << >>
    /\ docText = [d \in Names |-> NoText]
    /\ NothingRun
    /\ arg_text \in Strings
    /\ arg_n \in 0..MaxCount
    /\ returned = NoCall

runVars == <<mainVars, queue, pc, futureExc, stagesRun, localVars, lineVars, collection>>

\* remove_stopwords(arg_text)
CallRemoveStopwords ==
    /\ returned = NoCall
    /\ returned' = [fn |-> "remove_stopwords", arg |-> arg_text,
                    value |-> join(remove_stopwords(split(arg_text))), nth |-> 1]
    /\ UNCHANGED <<inputVars, runVars, arg_text, arg_n>>

\* remove_stopwords(v) for the value v the first call returned
CallRemoveStopwordsAgain ==
    /\ returned.fn = "remove_stopwords"
    /\ returned.nth = 1
    /\ returned' = [fn |-> "remove_stopwords", arg |-> returned.value,
                    value |-> join(remove_stopwords(split(returned.value))), nth |-> 2]
    /\ UNCHANGED <<inputVars, runVars, arg_text, arg_n>>

\* custom_summarization(arg_text, arg_n); the value is given by its words
CallCustomSummarization ==
    /\ returned = NoCall
    /\ returned' = [fn |-> "custom_summarization", arg |-> arg_text,
                    value |-> custom_summarization(split(arg_text), arg_n), nth |-> 1]
    /\ UNCHANGED <<inputVars, runVars, arg_text, arg_n>>

\* extract_keywords(arg_text, arg_n)
CallExtractKeywords ==
    /\ returned = NoCall
    /\ returned' = [fn |-> "extract_keywords", arg |-> arg_text,
                    value |-> extract_keywords(split(arg_text), arg_n), nth |-> 1]
    /\ UNCHANGED <<inputVars, runVars, arg_text, arg_n>>

TextNext ==
    \/ CallRemoveStopwords
    \/ CallRemoveStopwordsAgain
    \/ CallCustomSummarization
    \/ CallExtractKeywords

TextSpec == TextInit /\ [][TextNext]_vars

(***************************************************************************)
(* What the properties speak of.                                           *)
(***************************************************************************)
\* the documents run_pipeline enumerated
Enumerated == {pdf_files[k].stem : k \in DOMAIN pdf_files}

\* the number of records of the collection that carry the document's name
Records(d) ==
    LET mine == {r \in BagToSet(collection) : r.pdf_name = d}
    IN  BagCardinality([r \in mine |-> collection[r]])

\* the failure notifications that name the document
FailureReports(d) == processErrors[d] + saveErrors[d]

\* extract_text_from_pdf raised for the document
ExtractionRaised(d) == pc[d] = "Failed" /\ stagesRun[d] = <<"extract">>

\* some call of the document's unit of work raised into its handler
StageRaised(d) == pc[d] = "Failed" /\ stagesRun[d] # << >>

\* run_pipeline has returned normally
RunReturned == mainPc = "Returned" \/ (mainPc = "Done" /\ folder = "dir")

TerminalStates == {"Completed", "Failed"}

StageOrder == <<"extract", "filter", "summarize", "keywords", "persist">>

IsPrefix(s, t) == Len(s) <= Len(t) /\ \A i \in DOMAIN s : s[i] = t[i]

\* the record that processing the document alone, one call after the other,
\* stores
SequentialOutputs ==
    [t \in Texts |->
        [summary |-> custom_summarization(remove_stopwords(t), 3),
         keywords |-> extract_keywords(remove_stopwords(t), 5)]]
SequentialRecord(d) ==
    [pdf_name |-> d,
     summary |-> SequentialOutputs[docText[d]].summary,
     keywords |-> SequentialOutputs[docText[d]].keywords]

(***************************************************************************)
(* C1. Batch isolation.                                                    *)
(***************************************************************************)
\* C1, as stated: when run_pipeline has returned, every enumerated document
\* whose extraction raised has exactly one failure report and no record, and
\* every other enumerated document has exactly one record.
C1_AsStated ==
    RunReturned =>
        \A d \in Enumerated :
            IF ExtractionRaised(d)
            THEN FailureReports(d) = 1 /\ Records(d) = 0
            ELSE Records(d) = 1

\* C1, amended: when run_pipeline has returned, every enumerated document
\* whose extraction raised has exactly one failure report and no record, and
\* every enumerated document none of whose calls raised and whose insert was
\* accepted has exactly one record, whatever happened to the other documents.
C1_BatchIsolation ==
    RunReturned =>
        \A d \in Enumerated :
            /\ ExtractionRaised(d) => (FailureReports(d) = 1 /\ Records(d) = 0)
            /\ (~StageRaised(d) /\ saveErrors[d] = 0) => Records(d) = 1

\* [A, B, C] with B failing in extraction: A and C are stored
C1_Witness ==
    /\ RunReturned
    /\ Enumerated = {"A", "B", "C"}
    /\ ExtractionRaised("B")
    /\ FailureReports("B") = 1
    /\ Records("A") = 1 /\ Records("B") = 0 /\ Records("C") = 1

(***************************************************************************)
(* C2. Exactly one outcome per document.                                   *)
(***************************************************************************)
\* C2: when run_pipeline has returned, every enumerated document has either
\* its success notification and no failure report, or one failure report and
\* no success notification.
C2_ExactlyOneOutcome ==
    RunReturned =>
        \A d \in Enumerated :
            \/ savedLines[d] = 1 /\ FailureReports(d) = 0
            \/ savedLines[d] = 0 /\ FailureReports(d) = 1

(***************************************************************************)
(* C3. The join barrier.                                                   *)
(***************************************************************************)
\* C3: once run_pipeline has returned or raised, and when main emits its
\* final signal, every submitted unit of work is Completed or Failed and the
\* work queue is empty.
C3_JoinBarrier ==
    mainPc \in {"Returned", "Raised", "Done"} =>
        /\ queue = << >>
        /\ \A d \in Names : pc[d] # "NotSubmitted" => pc[d] \in TerminalStates

C3_Witness ==
    /\ mainPc = "Returned"
    /\ submitted = 3
    /\ \A d \in Enumerated : pc[d] \in TerminalStates
    /\ \E d \in Enumerated : pc[d] = "Failed"

(***************************************************************************)
(* C4. Completed only after a successful store.                            *)
(***************************************************************************)
\* the unit of work emitted its 'Saved' notification and ended without a
\* failure report
CompletedCleanly(d) ==
    pc[d] = "Completed" /\ savedLines[d] = 1 /\ FailureReports(d) = 0

\* C4: a unit of work that emitted 'Saved summary and keywords' and ended
\* without a failure report has its record in the collection; one whose
\* insert failed is never in that state; and no step changes a unit of work
\* that is Completed or Failed.
C4_CompletedOnlyAfterStore ==
    /\ [](\A d \in Names :
            /\ CompletedCleanly(d) => Records(d) = 1
            /\ (Len(stagesRun[d]) = 5 /\ Records(d) = 0)
                  => (saveErrors[d] = 1 /\ ~CompletedCleanly(d)))
    /\ [][\A d \in Names :
            pc[d] \in TerminalStates =>
                /\ pc'[d] = pc[d]
                /\ stagesRun'[d] = stagesRun[d]
                /\ savedLines'[d] = savedLines[d]
                /\ processErrors'[d] = processErrors[d]
                /\ saveErrors'[d] = saveErrors[d]
                /\ Records(d)' = Records(d)]_vars

\* one document completed with its record stored, another's insert failed
C4_Witness ==
    \E d, e \in Enumerated :
        /\ CompletedCleanly(d) /\ Records(d) = 1
        /\ pc[e] = "Completed" /\ saveErrors[e] = 1 /\ Records(e) = 0

C6_MissingFolder ==
    folder = "missing" =>
        /\ mainPc \in {"Idle", "Done"}
        /\ executor = "none"
        /\ submitted = 0 /\ queue = << >>
        /\ \A d \in Names : pc[d] = "NotSubmitted" /\ processingLines[d] = 0
        /\ collection = EmptyBag
        /\ warnings = 0
        /\ finalSignal \in {"none", "error: The folder path does not exist."}
        /\ mainPc = "Done" => finalSignal = "error: The folder path does not exist."

C6_Witness ==
    /\ folder = "missing"
    /\ mainPc = "Done"
    /\ finalSignal = "error: The folder path does not exist."

(***************************************************************************)
(* C7. A folder without documents.                                         *)
(***************************************************************************)
NoPdfListed == \A i \in DOMAIN listing : listing[i].ext # ".pdf"

\* C7: if the folder exists and holds no file ending in '.pdf', no pool is
\* made and nothing is submitted, no record is stored, no error is raised or
\* reported, and when run_pipeline has returned exactly one warning has been
\* emitted.
C7_NoDocuments ==
    (folder = "dir" /\ NoPdfListed) =>
        /\ executor = "none"
        /\ submitted = 0 /\ queue = << >>
        /\ \A d \in Names : pc[d] = "NotSubmitted" /\ FailureReports(d) = 0
        /\ collection = EmptyBag
        /\ mainPc \notin {"Submitting", "Collecting", "Exiting", "Unwinding", "Raised"}
        /\ finalSignal \in {"none", "success: PDFs processed successfully!"}
        /\ warnings = IF mainPc \in {"Returned", "Done"} THEN 1 ELSE 0

\* a folder that holds a file, but no document
C7_Witness ==
    /\ folder = "dir"
    /\ listing = <<OtherFile>>
    /\ mainPc = "Returned"
    /\ warnings = 1

(***************************************************************************)
(* C8. The order of the stages of one document.                            *)
(***************************************************************************)
\* the stages that have returned when the unit of work is in state p
DoneBefore(p) ==
    CASE p = "Extracting" -> 0
      [] p = "Filtering" -> 1
      [] p = "Summarizing" -> 2
      [] p = "KeywordExtracting" -> 3
      [] p = "Persisting" -> 4
      [] p = "Completed" -> 5

\* C8: the stages a unit of work has called are, in order, a prefix of
\* extract, filter, summarize, keywords, persist - none twice, none out of
\* order - and a stage starts only when all the stages before it returned.
C8_StageOrder ==
    \A d \in Names :
        /\ IsPrefix(stagesRun[d], StageOrder)
        /\ pc[d] \in {"NotSubmitted", "Pending"} => stagesRun[d] = << >>
        /\ pc[d] \notin {"NotSubmitted", "Pending", "Failed"}
              => Len(stagesRun[d]) = DoneBefore(pc[d])

\* the stages of two documents interleave: B, started after A, is ahead of A
C8_Witness ==
    /\ pc["A"] = "Filtering" /\ stagesRun["A"] = <<"extract">>
    /\ pc["B"] = "Persisting"
    /\ stagesRun["B"] = <<"extract", "filter", "summarize", "keywords">>

(***************************************************************************)
(* C9. The pool bounds the number of documents in process.                 *)
(***************************************************************************)
InProcess == {d \in Names : pc[d] \notin {"NotSubmitted", "Pending"} \cup TerminalStates}

\* C9: at every moment at most PoolSize documents are past Pending and not
\* yet Completed or Failed, and every Pending document is eventually started.
C9_PoolBound ==
    /\ [](Cardinality(InProcess) <= PoolSize)
    /\ \A d \in Names : (pc[d] = "Pending") ~> (pc[d] # "Pending")

\* the pool is full and a document waits as Pending
C9_Witness ==
    /\ Cardinality(InProcess) = PoolSize
    /\ \E d \in Names : pc[d] = "Pending"

(***************************************************************************)
(* C10. No leakage between documents.                                      *)
(***************************************************************************)
\* C10: every record of the collection is the record that processing its own
\* document alone would store, at most one per document, whatever the other
\* documents hold and however the workers interleave.
C10_NoLeakage ==
    /\ \A r \in BagToSet(collection) :
          \E d \in Enumerated : r = SequentialRecord(d) /\ collection[r] = 1
    /\ \A d \in Names :
          pc[d] = "Persisting" =>
              /\ summary[d] = SequentialRecord(d).summary
              /\ keywords[d] = SequentialRecord(d).keywords

\* two documents with different text in process at once: B has overtaken A
\* and stored its record while A is about to store its own
C10_Witness ==
    /\ docText["A"] # docText["B"]
    /\ pc["A"] = "Persisting"
    /\ pc["B"] = "Completed" /\ Records("B") = 1
    /\ SequentialRecord("A") # [SequentialRecord("B") EXCEPT !.pdf_name = "A"]

(***************************************************************************)
(* C11. The contract of extract_keywords.                                  *)
(***************************************************************************)
\* the number of times a token occurs in a string, capitals aside
FrequencyIn(s, tok) == Freq(word_tokenize(LowerText(split(s))), tok)

\* a token of letters only, with no mark
PurelyAlphabetic(tok) == tok.w \in AlphaWords /\ tok.p = ""

\* C11: for a text that is not blank, extract_keywords(t, n) returns at most
\* n tokens, each purely alphabetic, none a member of the stopword set, in
\* order of non-increasing frequency in t; for a blank text it returns [].
C11_KeywordsContract ==
    returned.fn = "extract_keywords" =>
        IF IsBlank(returned.arg)
        THEN returned.value = << >>
        ELSE /\ Len(returned.value) <= arg_n
             /\ \A i \in DOMAIN returned.value :
                   /\ PurelyAlphabetic(returned.value[i])
                   /\ returned.value[i].w \notin stop_words
             /\ \A i, j \in DOMAIN returned.value :
                   i < j => FrequencyIn(returned.arg, returned.value[i])
                              >= FrequencyIn(returned.arg, returned.value[j])

(***************************************************************************)
(* C12. The contract of custom_summarization.                              *)
(***************************************************************************)
\* the ways of picking some of the places 1..m, each at most once, in any order
Picks(m) ==
    {q \in UNION {[1..l -> 1..m] : l \in 0..m} :
        \A i, j \in DOMAIN q : i # j => q[i] # q[j]}

\* the sentences at the picked places, one after the other
Picked(sentences, q) == Flatten(AsSeq([i \in DOMAIN q |-> sentences[q[i]]]))

\* C12: for a text that is not blank, custom_summarization(t, k) is made of
\* at most k sentences of t, each as it is written in t (capitals and marks
\* kept) and none taken more often than it occurs in t, and of all the
\* sentences of t when k is at least their number; for a blank text it is "".
C12_SummaryContract ==
    returned.fn = "custom_summarization" =>
        IF IsBlank(returned.arg)
        THEN returned.value = << >>
        ELSE LET sentences == sent_tokenize(split(returned.arg))
             IN  \E q \in Picks(Len(sentences)) :
                    /\ Len(q) <= arg_n
                    /\ returned.value = Picked(sentences, q)
                    /\ arg_n >= Len(sentences) => Len(q) = Len(sentences)

\* a text of several sentences, one of them written with a capital, of
\* which the summary holds fewer
C12_Witness ==
    /\ returned.fn = "custom_summarization"
    /\ arg_n = 1
    /\ Len(sent_tokenize(split(returned.arg))) >= 2
    /\ returned.value \in {sent_tokenize(split(returned.arg))[i] :
                              i \in DOMAIN sent_tokenize(split(returned.arg))}
    /\ \E i \in DOMAIN returned.value : returned.value[i].cap

(***************************************************************************)
(* C13. remove_stopwords is idempotent.                                    *)
(***************************************************************************)
\* the word, lower-cased, is a member of the stopword set
LoweredIsStopword(tok) == tok.p = "" /\ tok.w \in stop_words

\* the places of the words that are no stopwords
KeptPlaces(words) == {i \in DOMAIN words : ~LoweredIsStopword(words[i])}

\* C13: remove_stopwords(remove_stopwords(t)) = remove_stopwords(t); the
\* words of remove_stopwords(t) are the words of t that are no stopwords,
\* in their order and as they are written, with one space between them, and
\* none of them is a stopword when lower-cased.
C13_Idempotent ==
    returned.fn = "remove_stopwords" =>
        LET before == split(returned.arg)
            after == split(returned.value)
            kept == KeptPlaces(before)
        IN  /\ returned.nth = 2 => returned.value = returned.arg
            /\ Len(after) = Cardinality(kept)
            /\ \A i \in kept : after[Cardinality({j \in kept : j <= i})] = before[i]
            /\ returned.value = join(after)
            /\ \A i \in DOMAIN after : ~LoweredIsStopword(after[i])

\* the function applied to its own value, for a text with a stopword in
\* it, a word that stays, and whitespace that is more than single spaces
C13_Witness ==
    /\ returned.fn = "remove_stopwords"
    /\ returned.nth = 2
    /\ \E i \in DOMAIN split(arg_text) : LoweredIsStopword(Lower(split(arg_text)[i]))
    /\ arg_text # join(split(arg_text))
    /\ Len(split(returned.value)) >= 2

(***************************************************************************)
(* C14. No retry, and a single hand-off to the Result Sink.                *)
(***************************************************************************)
\* how often x is an element of the sequence
Times(seq, x) == Cardinality({i \in DOMAIN seq : seq[i] = x})

\* how often the document has been submitted to the pool
SubmittedTimes(d) == Cardinality({k \in 1..submitted : pdf_files[k].stem = d})

\* all of pdf_files has been submitted
AllSubmitted == mainPc \in {"Collecting", "Exiting", "Unwinding", "Returned", "Raised"}
                   \/ (mainPc = "Done" /\ pdf_files # << >>)

\* extract_text_from_pdf returned for the document
ExtractionSucceeded(d) == Times(stagesRun[d], "extract") = 1 /\ processingLines[d] = 1

\* what C14 says of every moment, but for the hand-off of the documents
\* whose extraction succeeded
SingleAttempt(d) ==
    /\ SubmittedTimes(d) <= 1
    /\ (AllSubmitted /\ d \in Enumerated) => SubmittedTimes(d) = 1
    /\ Times(stagesRun[d], "extract") <= 1
    /\ Times(stagesRun[d], "persist") <= 1
    /\ pc[d] = "Failed" => (processErrors[d] = 1 /\ saveErrors[d] = 0)
    /\ processErrors[d] <= 1 /\ saveErrors[d] <= 1

\* no step takes up again a document that has failed
NeverReattempted ==
    \A d \in Names :
        pc[d] = "Failed" =>
            /\ pc'[d] = "Failed"
            /\ stagesRun'[d] = stagesRun[d]
            /\ processErrors'[d] = processErrors[d]

\* C14, as stated: each enumerated document is submitted exactly once, its
\* extraction attempted at most once, its record handed to the Result Sink
\* at most once, and exactly once when its extraction succeeded; a failed
\* document is reported once; the records stored never outnumber the
\* enumerated documents.
C14_AsStated ==
    /\ \A d \in Names : SingleAttempt(d)
    /\ RunReturned =>
          \A d \in Enumerated :
              ExtractionSucceeded(d) => Times(stagesRun[d], "persist") = 1
    /\ BagCardinality(collection) <= Len(pdf_files)

\* C14, amended: as above, the record being handed to the Result Sink
\* exactly once when extraction and every call after it returned; and no
\* step takes up again a document that has failed.
C14_NoRetry ==
    /\ [](/\ \A d \in Names : SingleAttempt(d)
          /\ RunReturned =>
                \A d \in Enumerated :
                    ~StageRaised(d) => Times(stagesRun[d], "persist") = 1
          /\ BagCardinality(collection) <= Len(pdf_files))
    /\ [][NeverReattempted]_vars

\* the run has returned: A failed after its extraction and was not handed
\* to the Result Sink, B was handed to it once
C14_Witness ==
    /\ RunReturned
    /\ pc["A"] = "Failed" /\ ExtractionSucceeded("A") /\ processErrors["A"] = 1
    /\ Times(stagesRun["A"], "persist") = 0
    /\ pc["B"] = "Completed" /\ Times(stagesRun["B"], "persist") = 1

(***************************************************************************)
(* C15. The progress notifications around the pipeline of a document.      *)
(***************************************************************************)
\* the step calls extract_text_from_pdf for the document
ExtractionBegins(d) ==
    Times(stagesRun[d], "extract") = 0 /\ Times(stagesRun'[d], "extract") = 1

\* C15: the 'Processing ...' notification of a document is there before its
\* extraction begins, and its 'Saved ...' notification is there only once
\* its Result Sink step has been taken.
C15_ProgressNotifications ==
    /\ [](\A d \in Names : savedLines[d] >= 1 => Times(stagesRun[d], "persist") = 1)
    /\ [][\A d \in Names : ExtractionBegins(d) => processingLines[d] >= 1]_vars

(***************************************************************************)
(* C16. The ranking of custom_summarization.                               *)
(***************************************************************************)
\* the sum, over the tokens, of their frequency among the words
RECURSIVE SumOfFrequencies(_, _)
SumOfFrequencies(words, toks) ==
    IF toks = << >> THEN 0
    ELSE Freq(words, Head(toks)) + SumOfFrequencies(words, Tail(toks))

\* the scores of the sentences of the string, in the order of the text
ScoresOf(s) ==
    AsSeq([i \in DOMAIN sent_tokenize(split(s)) |->
        SumOfFrequencies(word_tokenize(LowerText(split(s))),
                         word_tokenize(LowerText(sent_tokenize(split(s))[i])))])

\* the i-th sentence is ranked before the j-th: a higher score, or the same
\* score and an earlier place in the text
RankedBefore(scores, i, j) ==
    \/ scores[i] > scores[j]
    \/ scores[i] = scores[j] /\ i < j

\* C16: the summary is made of the first k sentences of the ranking by
\* score (the sum of the frequencies, in the whole lower-cased text, of the
\* sentence's lower-cased tokens), highest first, sentences of equal score
\* in their order in the text; no sentence left out has a higher score than
\* one that is returned.
C16_Ranking ==
    (returned.fn = "custom_summarization" /\ ~IsBlank(returned.arg)) =>
        LET sentences == sent_tokenize(split(returned.arg))
            scores == ScoresOf(returned.arg)
        IN  \E q \in Picks(Len(sentences)) :
                /\ returned.value = Picked(sentences, q)
                /\ Len(q) = IF arg_n < Len(sentences) THEN arg_n ELSE Len(sentences)
                /\ \A i, j \in DOMAIN q : i < j => RankedBefore(scores, q[i], q[j])
                /\ \A o \in DOMAIN sentences :
                      (\A i \in DOMAIN q : q[i] # o) =>
                          \A i \in DOMAIN q :
                              /\ RankedBefore(scores, q[i], o)
                              /\ scores[o] <= scores[q[i]]

\* two different sentences of equal score and room for one: the summary is
\* the one that comes first in the text
C16_Witness ==
    /\ returned.fn = "custom_summarization"
    /\ arg_n = 1
    /\ Len(sent_tokenize(split(returned.arg))) = 2
    /\ ScoresOf(returned.arg)[1] = ScoresOf(returned.arg)[2]
    /\ sent_tokenize(split(returned.arg))[1] # sent_tokenize(split(returned.arg))[2]
    /\ returned.value = sent_tokenize(split(returned.arg))[1]

(***************************************************************************)
(* C17. extract_keywords selects first and drops afterwards.               *)
(***************************************************************************)
\* the tokens of the string once its stopwords are removed and it is
\* lower-cased
FilteredTokens(s) == word_tokenize(LowerText(remove_stopwords(split(s))))

\* the place at which a token is first met
FirstAt(toks, x) == CHOOSE i \in DOMAIN toks : toks[i] = x /\ \A j \in 1..(i - 1) : toks[j] # x

\* the number of different tokens that are more frequent than x, or as
\* frequent and met before it
Ahead(toks, x) ==
    Cardinality({y \in {toks[i] : i \in DOMAIN toks} :
        \/ Freq(toks, y) > Freq(toks, x)
        \/ Freq(toks, y) = Freq(toks, x) /\ FirstAt(toks, y) < FirstAt(toks, x)})

\* C17: extract_keywords(t, n) holds exactly the purely alphabetic tokens
\* among the n most frequent tokens of the filtered, lower-cased text (ties
\* going to the token met first), each once, the more frequent first; an
\* alphabetic token outside those n is not returned.
C17_SelectThenDrop ==
    returned.fn = "extract_keywords" =>
        LET toks == FilteredTokens(returned.arg)
        IN  /\ \A x \in {toks[i] : i \in DOMAIN toks} :
                  (\E i \in DOMAIN returned.value : returned.value[i] = x)
                      <=> (Ahead(toks, x) < arg_n /\ PurelyAlphabetic(x))
            /\ \A i \in DOMAIN returned.value :
                  \E j \in DOMAIN toks : toks[j] = returned.value[i]
            /\ \A i, j \in DOMAIN returned.value :
                  i < j => Ahead(toks, returned.value[i]) < Ahead(toks, returned.value[j])

\* more alphabetic tokens than asked for, and fewer keywords than asked
\* for: a token that is not alphabetic took a place of the selection
C17_Witness ==
    /\ returned.fn = "extract_keywords"
    /\ arg_n >= 1
    /\ Cardinality({x \in {FilteredTokens(returned.arg)[i] :
                               i \in DOMAIN FilteredTokens(returned.arg)} :
                        PurelyAlphabetic(x)}) > arg_n
    /\ Len(returned.value) < arg_n

(***************************************************************************)
(* C18. The final signal of main.                                          *)
(***************************************************************************)
\* the signal main ends with, given what folder_path names
SignalFor(f) ==
    IF ~PathExists(f) THEN "error: The folder path does not exist."
    ELSE IF f = "dir" THEN "success: PDFs processed successfully!"
    ELSE "error: An error occurred"

\* C18: when main is done its signal is the one that goes with the folder
\* alone - success for every folder that exists and can be listed, whatever
\* became of its documents and also when it holds none, the warning then
\* having come first - and once a signal is emitted no other one follows.
C18_FinalSignal ==
    /\ [](/\ mainPc = "Done" <=> finalSignal # "none"
          /\ mainPc = "Done" => finalSignal = SignalFor(folder)
          /\ (mainPc = "Done" /\ folder = "dir" /\ NoPdfListed) => warnings = 1
          /\ warnings <= 1)
    /\ [][/\ finalSignal # "none" => finalSignal' = finalSignal
          /\ warnings' # warnings => (finalSignal = "none" /\ finalSignal' = "none")]_vars

\* every document of the folder has failed and main has emitted success
C18_Witness ==
    /\ mainPc = "Done"
    /\ Enumerated = {"A", "B"}
    /\ \A d \in Enumerated : pc[d] = "Failed" /\ Records(d) = 0
    /\ finalSignal = "success: PDFs processed successfully!"

====
